---- MODULE Spec2Model ----
(***************************************************************************)
(* Tool registry construction (assistant/agents/agent_utils.py,            *)
(* assistant/utils.py) and the executor loop                               *)
(* (assistant/agents/grocery_agent.py) of the assistant repository, the     *)
(* browser manager (assistant/browser.py) and the product search           *)
(* (assistant/tools/grocery.py).                                           *)
(*                                                                         *)
(* Python values are modelled as follows.                                  *)
(*   str            a TLA+ string; f-string concatenation is \o            *)
(*   docstring      [none |-> BOOLEAN, text |-> sequence of tokens], the   *)
(*                  tokens " " and "\n" being whitespace                   *)
(*   dict           a sequence of [k |-> key, v |-> value] in insertion    *)
(*                  order, with at most one entry per key                  *)
(*   function       [name, module, params, doc]; a parameter is            *)
(*                  [name, annotation, default], default "_empty" when     *)
(*                  the parameter has none                                 *)
(***************************************************************************)
EXTENDS Integers, Sequences, FiniteSets, TLC

VARIABLES
    sources,        \* the list handed to process_functions
    client,         \* the client handed to process_functions: "OpenAI" | "None"
    build,          \* "pending" | "built" | "raised"
    func_map,       \* dict: tool name -> function
    func_desc_map,  \* dict: description key -> summary
    tools_schema,   \* list of schemas
    plan,           \* "" until call_planner has returned
    pc,             \* position of call_executor: "idle" | "request" | "tool" | "complete"
    messages,       \* call_executor's conversation
    message_list,   \* the log kept by append_message
    tool_calls,     \* the tool calls of the model turn being handled
    idx,            \* index in tool_calls of the call the for loop is at
    turn,           \* number of model turns requested so far
    handled,        \* what happened to each tool call, in order: whether func_map
                    \* was consulted (resolved), whether the tool's body ran (ran),
                    \* and the message of the exception it raised (error)
    sample_func,    \* the callable handed to function_to_schema on its own
    sample_schema,  \* what function_to_schema returned or raised for it
    subject,        \* the class handed to class_to_function on its own
    functions,      \* the dict class_to_function returned for it
    objects,        \* the instances the generated functions work on, a handle
                    \* being a position in this list
    mirror,         \* the instances of the same constructions and method calls
                    \* made on the class directly
    last_call,      \* the latest call: its outcome through the generated
                    \* function (via) and on the class directly (direct)
    ncalls,         \* method calls made so far
    playwright,     \* BrowserManager.playwright: None or a Playwright instance
    browser_context,\* BrowserManager.browser_context: None or a browser context
    instances,      \* the Playwright instances and browser contexts launched so
                    \* far, an object being its position in this list
    last_op,        \* the latest call of start() or stop(): how it ended
    product_query,  \* the query handed to find_product_at_HEB
    browser_page,   \* the page handed to it: what its calls will do
    visited,        \* the URL the page was sent to, "" if none
    found           \* what find_product_at_HEB returned

vars == <<sources, client, build, func_map, func_desc_map, tools_schema, plan, pc,
          messages, message_list, tool_calls, idx, turn, handled,
          sample_func, sample_schema,
          subject, functions, objects, mirror, last_call, ncalls,
          playwright, browser_context, instances, last_op,
          product_query, browser_page, visited, found>>

browser_vars == <<playwright, browser_context, instances, last_op>>

grocery_vars == <<product_query, browser_page, visited, found>>

class_vars == <<subject, functions, objects, mirror, last_call, ncalls>>

schema_vars == <<sample_func, sample_schema>>
registry_vars == <<sources, client, build, func_map, func_desc_map, tools_schema>>
executor_vars == <<pc, messages, message_list, tool_calls, idx, turn, handled>>

-----------------------------------------------------------------------------
(* Bounds                                                                  *)

\* sources in the list handed to process_functions
MaxSources == 2
\* model turns of one run of call_executor
MaxTurns == 2
\* tool calls the model requests over one run of call_executor
MaxCalls == 3
\* parameters of a function handed to function_to_schema on its own
MaxParams == 2
\* instances constructed in one run of the generated functions
MaxInstances == 2
\* method calls made in one run of the generated functions
MaxMethodCalls == 2
\* Playwright instances started over the life of one BrowserManager
MaxLaunches == 3
\* product cards on a search page
MaxCards == 3

-----------------------------------------------------------------------------
(* Python helpers                                                          *)

RECURSIVE Join(_)
Join(s) == IF s = <<>> THEN "" ELSE Head(s) \o Join(Tail(s))

Range(s) == {s[i] : i \in 1..Len(s)}

DictKeys(d) == {d[i].k : i \in 1..Len(d)}

DictValues(d) == [i \in 1..Len(d) |-> d[i].v]

DictGet(d, key) == d[CHOOSE i \in 1..Len(d) : d[i].k = key].v

\* d[key] = value: an existing key keeps its position, a new key goes last
DictSet(d, key, value) ==
    IF key \in DictKeys(d)
    THEN [i \in 1..Len(d) |-> IF d[i].k = key THEN [k |-> key, v |-> value] ELSE d[i]]
    ELSE Append(d, [k |-> key, v |-> value])

RECURSIVE DictUpdate(_, _)
DictUpdate(d, items) ==
    IF items = <<>> THEN d
    ELSE DictUpdate(DictSet(d, Head(items).k, Head(items).v), Tail(items))

IsSpace(tok) == tok \in {" ", "\n"}

RECURSIVE LStrip(_)
LStrip(s) == IF s # <<>> /\ IsSpace(Head(s)) THEN LStrip(Tail(s)) ELSE s

RECURSIVE RStrip(_)
RStrip(s) ==
    IF s # <<>> /\ IsSpace(s[Len(s)]) THEN RStrip(SubSeq(s, 1, Len(s) - 1)) ELSE s

\* str.strip()
Strip(s) == RStrip(LStrip(s))

-----------------------------------------------------------------------------
(* The functions, modules and sources the registry is built from           *)

NoDefault == "_empty"

\* inspect.Parameter; kind is one of POSITIONAL_OR_KEYWORD, VAR_POSITIONAL,
\* KEYWORD_ONLY, VAR_KEYWORD
ParamOfKind(n, a, d, k) == [name |-> n, annotation |-> a, default |-> d, kind |-> k]

Param(n, a, d) == ParamOfKind(n, a, d, "POSITIONAL_OR_KEYWORD")

Doc(toks) == [none |-> FALSE, text |-> toks]
NoDoc == [none |-> TRUE, text |-> <<>>]

\* introspectable is FALSE when inspect.signature(func) raises ValueError
Function(n, m, ps, d) ==
    [name |-> n, module |-> m, params |-> ps, doc |-> d, introspectable |-> TRUE]

\* a function wrapping a builtin that has no signature (functools.wraps)
OpaqueFunction(n, m, d) ==
    [name |-> n, module |-> m, params |-> <<>>, doc |-> d, introspectable |-> FALSE]

SENTINEL == "instructions_complete"

add_calc ==
    Function("add", "tools.calc",
             <<Param("a", "int", NoDefault), Param("b", "int", NoDefault)>>,
             Doc(<<"Adds two numbers">>))

search_calc ==
    Function("search", "tools.calc",
             <<Param("query", "str", NoDefault), Param("limit", "int", "10")>>,
             Doc(<<"\n", " ", "Searches", " ", "\n">>))

add_text ==
    Function("add", "tools.text",
             <<Param("a", "str", NoDefault), Param("b", "_empty", "None")>>,
             Doc(<<" ", "Concatenates">>))

instructions_complete_text ==
    Function(SENTINEL, "tools.text", <<>>, Doc(<<"Marks the plan done">>))

helper_os == Function("getcwd", "os", <<>>, Doc(<<"cwd">>))

undocumented_raw ==
    Function("raw", "tools.raw", <<Param("n", "float", NoDefault)>>, NoDoc)

update_native == OpaqueFunction("update", "tools.native", Doc(<<"Updates">>))

\* a module: its name and inspect.getmembers(module, isfunction), which is
\* sorted by attribute name
Module(n, ms) == [kind |-> "module", name |-> n, members |-> ms]

Member(attr, f) == [attr |-> attr, func |-> f]

ModuleCalc ==
    Module("tools.calc", <<Member("add", add_calc), Member("getcwd", helper_os),
                           Member("search", search_calc)>>)

ModuleText ==
    Module("tools.text", <<Member("add", add_text),
                           Member(SENTINEL, instructions_complete_text),
                           Member("plus", add_text)>>)

ModuleRaw == Module("tools.raw", <<Member("raw", undocumented_raw)>>)

ModuleEmpty == Module("tools.none", <<>>)

ModuleNative == Module("tools.native", <<Member("update", update_native)>>)

\* a class: its name as characters, its __init__ and
\* inspect.getmembers(cls, isfunction) without __init__, sorted by name
Class(chars, init, ms) ==
    [kind |-> "class", name |-> Join(chars), chars |-> chars, init |-> init,
     members |-> ms]

Method(chars, ps, d) ==
    [attr |-> chars,
     func |-> Function(Join(chars), "assistant.browser",
                       <<Param("self", "_empty", NoDefault)>> \o ps, d)]

BrowserManager ==
    Class(<<"B", "r", "o", "w", "s", "e", "r", "M", "a", "n", "a", "g", "e", "r">>,
          Method(<<"_", "_", "i", "n", "i", "t", "_", "_">>,
                 <<Param("user_data_dir", "Optional", "None"),
                   Param("debug", "bool", "False")>>,
                 Doc(<<"\n", " ", "Initialize the browser manager", "\n", " ">>)).func,
          <<Method(<<"_", "n", "e", "w", "_", "p", "a", "g", "e">>, <<>>,
                   Doc(<<"Get a new page">>)),
            Method(<<"s", "t", "a", "r", "t">>, <<>>,
                   Doc(<<"Initializes and launches a new browser instance">>)),
            Method(<<"s", "t", "o", "p">>, <<>>, NoDoc)>>)

\* the method of a class of the tests
TestMethod(chars, ps, d) ==
    [attr |-> chars,
     func |-> Function(Join(chars), "tests", <<Param("self", "_empty", NoDefault)>> \o ps, d)]

\* object.__init__, what cls.__init__ is for a class that defines none
object_init ==
    Function("__init__", "builtins",
             <<Param("self", "_empty", NoDefault),
               ParamOfKind("args", "_empty", NoDefault, "VAR_POSITIONAL"),
               ParamOfKind("kwargs", "_empty", NoDefault, "VAR_KEYWORD")>>,
             Doc(<<"Initialize self.">>))

private_method ==
    TestMethod(<<"_", "p", "r", "i", "v", "a", "t", "e", "_", "m", "e", "t", "h", "o", "d">>,
               <<>>, NoDoc)

add_to_x ==
    TestMethod(<<"a", "d", "d", "_", "t", "o", "_", "x">>,
               <<Param("value", "int", NoDefault)>>, Doc(<<"Add an integer to self.x">>))

greet ==
    TestMethod(<<"g", "r", "e", "e", "t">>, <<Param("name", "str", NoDefault)>>,
               Doc(<<"Return a greeting.">>))

initialize_method ==
    TestMethod(<<"i", "n", "i", "t", "i", "a", "l", "i", "z", "e">>, <<>>,
               Doc(<<"Set x back to zero">>))

\* class Example of test_class_to_function_with_methods
Example ==
    Class(<<"E", "x", "a", "m", "p", "l", "e">>,
          TestMethod(<<"_", "_", "i", "n", "i", "t", "_", "_">>,
                     <<Param("x", "int", NoDefault), Param("y", "str", "'default'")>>,
                     Doc(<<"Init docstring">>)).func,
          <<private_method, add_to_x, greet>>)

\* class EmptyClass of test_class_to_function_basic_class
EmptyClass ==
    Class(<<"E", "m", "p", "t", "y", "C", "l", "a", "s", "s">>,
          TestMethod(<<"_", "_", "i", "n", "i", "t", "_", "_">>,
                     <<Param("val", "int", NoDefault)>>,
                     Doc(<<"Constructor docstring">>)).func,
          <<private_method>>)

\* a class that defines no __init__: x is a class attribute, 0
Tally == Class(<<"T", "a", "l", "l", "y">>, object_init, <<add_to_x>>)

\* a class whose constructor takes x by keyword only and that has a public
\* method called initialize
Session ==
    Class(<<"S", "e", "s", "s", "i", "o", "n">>,
          TestMethod(<<"_", "_", "i", "n", "i", "t", "_", "_">>,
                     <<ParamOfKind("x", "int", "0", "KEYWORD_ONLY")>>,
                     Doc(<<"Open a session">>)).func,
          <<add_to_x, initialize_method>>)

\* a method whose receiver is not called self
record ==
    [attr |-> <<"r", "e", "c", "o", "r", "d">>,
     func |-> Function("record", "tests",
                       <<Param("this", "_empty", NoDefault), Param("value", "int", "0")>>,
                       Doc(<<"Add an integer to this.x">>))]

\* a class whose public method names its receiver this
Ledger ==
    Class(<<"L", "e", "d", "g", "e", "r">>,
          TestMethod(<<"_", "_", "i", "n", "i", "t", "_", "_">>,
                     <<Param("x", "int", "0")>>, Doc(<<"Open a ledger">>)).func,
          <<record>>)

Classes == {Example, EmptyClass, Tally, Session, Ledger}

\* a source that is neither a module path nor a class
BadSource == [kind |-> "other", name |-> "42"]

Catalogue ==
    {ModuleCalc, ModuleText, ModuleRaw, ModuleEmpty, ModuleNative, BrowserManager,
     BadSource}

\* the clients process_functions may be handed: an OpenAI client, or None where
\* there is no summarization service
Clients == {"OpenAI", "None"}

SourceLists == UNION {[1..n -> Catalogue] : n \in 0..MaxSources}

\* the annotations a parameter may carry: none, the seven types of type_map
\* (None written as the object None or as the class NoneType), a typing
\* construct and a list display
Annotations ==
    {"_empty", "str", "int", "float", "bool", "list", "dict", "None", "NoneType",
     "Optional", "[int]"}

\* repr of the defaults a parameter may have, NoDefault for none
Defaults == {NoDefault, "None", "0"}

ParamNames == <<"a", "b", "c", "d">>

\* the (annotation, default) pairs a parameter may have
ParamChoices ==
    {c \in [annotation : Annotations, default : Defaults] :
        c.default # NoDefault => c.annotation \in {"_empty", "int", "str"}}

ParamLists ==
    UNION {{[i \in 1..n |-> Param(ParamNames[i], cs[i].annotation, cs[i].default)] :
               cs \in [1..n -> ParamChoices]} :
           n \in 0..MaxParams}

\* __doc__: absent, empty, blank, one line, or indented lines
DocStrings ==
    {NoDoc, Doc(<<>>), Doc(<<" ", "\n">>), Doc(<<"This is a test function">>),
     Doc(<<"\n", " ", " ", "Adds", " ", "two", "\n", " ", " ", " ", "numbers",
           "\n", " ">>)}

\* the callables function_to_schema is handed on its own
SampleFuncs ==
    {Function("sample_func", "tests", ps, d) : ps \in ParamLists, d \in DocStrings}
    \cup {OpaqueFunction("update", "tests", d) : d \in DocStrings}

\* no callable has been handed to function_to_schema on its own
NoSample == [name |-> ""]

\* function_to_schema has not been called
NotBuilt == [pending |-> TRUE]

\* what the summarization model may answer with
SummaryStyles == {"Summary: ", "In short: "}

-----------------------------------------------------------------------------
(* inspect.cleandoc / inspect.getdoc                                       *)

RECURSIVE SplitLines(_, _)
SplitLines(s, cur) ==
    IF s = <<>> THEN <<cur>>
    ELSE IF Head(s) = "\n" THEN <<cur>> \o SplitLines(Tail(s), <<>>)
    ELSE SplitLines(Tail(s), Append(cur, Head(s)))

RECURSIVE LeadingSpaces(_)
LeadingSpaces(line) ==
    IF line # <<>> /\ Head(line) = " " THEN 1 + LeadingSpaces(Tail(line)) ELSE 0

Drop(line, n) == SubSeq(line, n + 1, Len(line))

RECURSIVE DropLeadingBlank(_)
DropLeadingBlank(lines) ==
    IF lines # <<>> /\ Head(lines) = <<>> THEN DropLeadingBlank(Tail(lines)) ELSE lines

RECURSIVE DropTrailingBlank(_)
DropTrailingBlank(lines) ==
    IF lines # <<>> /\ lines[Len(lines)] = <<>>
    THEN DropTrailingBlank(SubSeq(lines, 1, Len(lines) - 1))
    ELSE lines

RECURSIVE JoinLines(_)
JoinLines(lines) ==
    IF lines = <<>> THEN <<>>
    ELSE IF Len(lines) = 1 THEN Head(lines)
    ELSE Head(lines) \o <<"\n">> \o JoinLines(Tail(lines))

cleandoc(text) ==
    LET lines == SplitLines(text, <<>>)
        indented == {i \in 2..Len(lines) : LeadingSpaces(lines[i]) < Len(lines[i])}
        margin == IF indented = {} THEN 0
                  ELSE CHOOSE m \in {LeadingSpaces(lines[i]) : i \in indented} :
                           \A i \in indented : m <= LeadingSpaces(lines[i])
        dedented == [i \in 1..Len(lines) |->
                        IF i = 1 THEN Drop(lines[i], LeadingSpaces(lines[i]))
                        ELSE Drop(lines[i], IF margin <= Len(lines[i]) THEN margin
                                            ELSE Len(lines[i]))]
    IN  JoinLines(DropLeadingBlank(DropTrailingBlank(dedented)))

\* inspect.getdoc(func): None without a docstring, else the cleaned docstring
getdoc(func) ==
    IF func.doc.none THEN NoDoc ELSE Doc(cleandoc(func.doc.text))

-----------------------------------------------------------------------------
(* assistant/utils.py                                                      *)

\* an exception: its type and message
PyError(type, msg) == [error |-> type, message |-> msg]

\* whether a function_to_schema or simple_call_gpt_model result is an exception
IsError(result) == "error" \in DOMAIN result

\* annotations whose value cannot be hashed (a list display such as [int])
Unhashable == {"[int]"}

\* dict.get hashes its key: TypeError on an unhashable annotation
hash_error(annotation) == annotation \in Unhashable

\* type_map.get(param.annotation, "string"); the annotation None is the object
\* None, the key of "null" is the class NoneType
type_map(annotation) ==
    CASE annotation = "str" -> "string"
      [] annotation = "int" -> "integer"
      [] annotation = "float" -> "number"
      [] annotation = "bool" -> "boolean"
      [] annotation = "list" -> "array"
      [] annotation = "dict" -> "object"
      [] annotation = "NoneType" -> "null"
      [] OTHER -> "string"

properties(params) ==
    DictUpdate(<<>>, [i \in 1..Len(params) |->
                         [k |-> params[i].name,
                          v |-> [type |-> type_map(params[i].annotation)]]])

IsRequired(param) == param.default = NoDefault

RECURSIVE required(_)
required(params) ==
    IF params = <<>> THEN <<>>
    ELSE (IF IsRequired(Head(params)) THEN <<Head(params).name>> ELSE <<>>)
         \o required(Tail(params))

function_to_schema(func) ==
    IF ~func.introspectable
    THEN PyError("ValueError", "Failed to get signature for function " \o func.name)
    ELSE IF \E i \in 1..Len(func.params) : hash_error(func.params[i].annotation)
    THEN PyError("TypeError", "unhashable type: 'list'")
    ELSE
      [type |-> "function",
       function |->
          [name |-> func.name,
           description |-> Join(Strip(IF func.doc.none THEN <<>> ELSE func.doc.text)),
           parameters |-> [type |-> "object",
                           properties |-> properties(func.params),
                           required |-> required(func.params)]]]

RECURSIVE FilterDefinedHere(_, _)
FilterDefinedHere(members, module_name) ==
    IF members = <<>> THEN <<>>
    ELSE (IF Head(members).func.module = module_name
          THEN <<Head(members).func>> ELSE <<>>)
         \o FilterDefinedHere(Tail(members), module_name)

extract_functions_from_package(module) ==
    FilterDefinedHere(module.members, module.name)

UpperCase == <<"A", "B", "C", "D", "E", "F", "G", "H", "I", "J", "K", "L", "M",
               "N", "O", "P", "Q", "R", "S", "T", "U", "V", "W", "X", "Y", "Z">>

LowerCase == <<"a", "b", "c", "d", "e", "f", "g", "h", "i", "j", "k", "l", "m",
               "n", "o", "p", "q", "r", "s", "t", "u", "v", "w", "x", "y", "z">>

Digits == {"0", "1", "2", "3", "4", "5", "6", "7", "8", "9"}

IsUpper(c) == c \in Range(UpperCase)

IsLower(c) == c \in Range(LowerCase)

\* str.lower() on one character
lower(c) ==
    IF IsUpper(c) THEN LowerCase[CHOOSE i \in 1..Len(UpperCase) : UpperCase[i] = c] ELSE c

\* the length of the run of lower-case letters s starts with
RECURSIVE LowerRun(_)
LowerRun(s) == IF s # <<>> /\ IsLower(Head(s)) THEN 1 + LowerRun(Tail(s)) ELSE 0

\* re.sub('(.)([A-Z][a-z]+)', r'\1_\2', name)
RECURSIVE sub_word(_)
sub_word(s) ==
    IF Len(s) < 3 THEN s
    ELSE IF IsUpper(s[2]) /\ IsLower(s[3])
    THEN LET n == 2 + LowerRun(SubSeq(s, 3, Len(s)))
         IN  <<s[1], "_">> \o SubSeq(s, 2, n) \o sub_word(SubSeq(s, n + 1, Len(s)))
    ELSE <<s[1]>> \o sub_word(Tail(s))

\* re.sub('([a-z0-9])([A-Z])', r'\1_\2', s1)
RECURSIVE sub_hump(_)
sub_hump(s) ==
    IF Len(s) < 2 THEN s
    ELSE IF (IsLower(s[1]) \/ s[1] \in Digits) /\ IsUpper(s[2])
    THEN <<s[1], "_", s[2]>> \o sub_hump(SubSeq(s, 3, Len(s)))
    ELSE <<s[1]>> \o sub_hump(Tail(s))

snake_case(chars) ==
    LET s2 == sub_hump(sub_word(chars))
    IN  Join([i \in 1..Len(s2) |-> lower(s2[i])])

\* the parameters of a generated function: those of the original without self,
\* an unannotated parameter being annotated Any
RECURSIVE params_code(_)
params_code(params) ==
    IF params = <<>> THEN <<>>
    ELSE (IF Head(params).name = "self" THEN <<>>
          ELSE <<Param(Head(params).name,
                       IF Head(params).annotation = "_empty" THEN "Any"
                       ELSE Head(params).annotation,
                       Head(params).default)>>)
         \o params_code(Tail(params))

\* the docstring f'"""{docstring}"""' gives a generated function
generated_doc(doc) == IF doc.none THEN Doc(<<>>) ELSE doc

\* ", ".join(name for name in sig.parameters if name != 'self')
RECURSIVE call_args(_)
call_args(params) ==
    IF params = <<>> THEN <<>>
    ELSE (IF Head(params).name = "self" THEN <<>> ELSE <<Head(params).name>>)
         \o call_args(Tail(params))

\* the function exec(func_code, scope) defines: a function object with the body
\* the generated source gives it
Generated(n, ps, d, body) ==
    [name |-> n, module |-> "", params |-> ps, doc |-> d, introspectable |-> TRUE,
     body |-> body]

\* return {cls.__name__}({call_args_str})
generate_initialize_func(cls) ==
    Generated("initialize_" \o snake_case(cls.chars),
              params_code(cls.init.params), generated_doc(cls.init.doc),
              [kind |-> "construct", cls |-> cls.name, self |-> "",
               method |-> "", args |-> call_args(cls.init.params)])

\* return {self_param_name}.{method_name}({call_args_str})
generate_method_func(cls, method_name, method_obj) ==
    Generated(method_name \o "_" \o snake_case(cls.chars),
              <<Param(snake_case(cls.chars), cls.name, NoDefault)>>
                  \o params_code(method_obj.params),
              generated_doc(method_obj.doc),
              [kind |-> "method", cls |-> cls.name, self |-> snake_case(cls.chars),
               method |-> method_name, args |-> call_args(method_obj.params)])

RECURSIVE public_methods(_)
public_methods(members) ==
    IF members = <<>> THEN <<>>
    ELSE (IF Head(Head(members).attr) = "_" THEN <<>> ELSE <<Head(members)>>)
         \o public_methods(Tail(members))

\* the dict class_to_function returns
class_to_function(cls) ==
    LET methods == public_methods(cls.members)
        init_func == generate_initialize_func(cls)
    IN  DictUpdate(<<[k |-> init_func.name, v |-> init_func]>>,
                   [i \in 1..Len(methods) |->
                       LET new_func == generate_method_func(cls, Join(methods[i].attr),
                                                            methods[i].func)
                       IN  [k |-> new_func.name, v |-> new_func]])

-----------------------------------------------------------------------------
(* Calling the functions class_to_function generates                       *)

\* Python values: an int, None, a str, or a reference to the instance at
\* position v of the heap
IntVal(n) == [t |-> "int", v |-> n]
NoneVal == [t |-> "none", v |-> 0]
StrVal == [t |-> "str", v |-> 0]
Ref(h) == [t |-> "ref", v |-> h]

\* the value a default evaluates to, from its repr
literal(repr) ==
    CASE repr = "0" -> IntVal(0)
      [] repr = "1" -> IntVal(1)
      [] repr = "10" -> IntVal(10)
      [] repr = "'default'" -> StrVal
      [] OTHER -> NoneVal

\* a call: its positional arguments and its keyword arguments (a dict)
Call(args, kwargs) == [args |-> args, kwargs |-> kwargs]

DictRemove(d, key) == SelectSeq(d, LAMBDA e : e.k # key)

\* Python's binding of the arguments of a call to the parameters of a def:
\* the dict of bound values, or the TypeError the call raises
RECURSIVE bind_from(_, _, _, _)
bind_from(params, args, kwargs, bound) ==
    IF params = <<>>
    THEN IF args # <<>>
         THEN PyError("TypeError", "too many positional arguments")
         ELSE IF kwargs # <<>>
         THEN PyError("TypeError", "got an unexpected keyword argument")
         ELSE [values |-> bound]
    ELSE
      LET q == Head(params)
          rest == Tail(params)
      IN  CASE q.kind = "POSITIONAL_OR_KEYWORD" ->
                 IF args # <<>>
                 THEN IF q.name \in DictKeys(kwargs)
                      THEN PyError("TypeError", "got multiple values for argument")
                      ELSE bind_from(rest, Tail(args), kwargs,
                                     DictSet(bound, q.name, Head(args)))
                 ELSE IF q.name \in DictKeys(kwargs)
                 THEN bind_from(rest, args, DictRemove(kwargs, q.name),
                                DictSet(bound, q.name, DictGet(kwargs, q.name)))
                 ELSE IF q.default # NoDefault
                 THEN bind_from(rest, args, kwargs,
                                DictSet(bound, q.name, literal(q.default)))
                 ELSE PyError("TypeError", "missing a required positional argument")
            [] q.kind = "VAR_POSITIONAL" ->
                 bind_from(rest, <<>>, kwargs,
                           DictSet(bound, q.name, [t |-> "tuple", v |-> args]))
            [] q.kind = "KEYWORD_ONLY" ->
                 IF args # <<>>
                 THEN PyError("TypeError", "too many positional arguments")
                 ELSE IF q.name \in DictKeys(kwargs)
                 THEN bind_from(rest, args, DictRemove(kwargs, q.name),
                                DictSet(bound, q.name, DictGet(kwargs, q.name)))
                 ELSE IF q.default # NoDefault
                 THEN bind_from(rest, args, kwargs,
                                DictSet(bound, q.name, literal(q.default)))
                 ELSE PyError("TypeError", "missing a required keyword-only argument")
            [] q.kind = "VAR_KEYWORD" ->
                 bind_from(rest, args, <<>>,
                           DictSet(bound, q.name, [t |-> "dict", v |-> kwargs]))

bind(params, call) == bind_from(params, call.args, call.kwargs, <<>>)

ClassNamed(name) == CHOOSE c \in Classes : c.name = name

\* an instance on the heap: its class and the integer it stores
Instance(cls_name, x) == [cls |-> cls_name, x |-> x, live |-> TRUE]

\* the place of a construction that raised
NoInstance == [cls |-> "", x |-> 0, live |-> FALSE]

\* cls(*args, **kwargs): the new instance, or the TypeError raised; __init__
\* stores its first argument, object.__init__ takes no arguments
construct(cls, call) ==
    LET b == bind(Tail(cls.init.params), call)
    IN  IF IsError(b) THEN b
        ELSE IF cls.init.module = "builtins"
        THEN IF call.args # <<>> \/ call.kwargs # <<>>
             THEN PyError("TypeError", cls.name \o "() takes no arguments")
             ELSE [instance |-> Instance(cls.name, 0)]
        ELSE IF b.values[1].v.t # "int"
        THEN [instance |-> Instance(cls.name, 0)]
        ELSE [instance |-> Instance(cls.name, b.values[1].v.v)]

\* the methods of a class by attribute name
HasMethod(cls, method_name) ==
    \E i \in 1..Len(cls.members) : Join(cls.members[i].attr) = method_name

MethodNamed(cls, method_name) ==
    cls.members[CHOOSE i \in 1..Len(cls.members) :
                    Join(cls.members[i].attr) = method_name].func

\* instance.method_name(*args, **kwargs) run on inst: what it returns and the
\* instance afterwards, or the exception raised
invoke(inst, method_name, call) ==
    LET b == bind(Tail(MethodNamed(ClassNamed(inst.cls), method_name).params), call)
    IN  IF IsError(b) THEN b
        ELSE CASE method_name \in {"add_to_x", "record"} ->
                    IF b.values[1].v.t # "int"
                    THEN PyError("TypeError", "unsupported operand type(s) for +=")
                    ELSE [value |-> IntVal(inst.x + b.values[1].v.v),
                          instance |-> [inst EXCEPT !.x = inst.x + b.values[1].v.v]]
               [] method_name = "greet" -> [value |-> StrVal, instance |-> inst]
               [] method_name = "initialize" ->
                    [value |-> NoneVal, instance |-> [inst EXCEPT !.x = 0]]
               [] OTHER -> [value |-> NoneVal, instance |-> inst]

\* the latest instance stands in for the one handed in
receiver_latest(values, self_param_name, heap) == Ref(Len(heap))

\* the object the generated method function calls the method on
receiver(values, self_param_name, heap) == DictGet(values, self_param_name)

\* generated(*args, **kwargs) with the heap as it is: the outcome (the value
\* returned or the exception raised) and the heap afterwards
call_generated(f, call, heap) ==
    LET b == bind(f.params, call)
    IN  IF IsError(b) THEN [outcome |-> b, heap |-> heap]
        ELSE
          LET inner == Call([i \in 1..Len(f.body.args) |->
                                DictGet(b.values, f.body.args[i])], <<>>)
          IN  IF f.body.kind = "construct"
              THEN LET r == construct(ClassNamed(f.body.cls), inner)
                   IN  IF IsError(r) THEN [outcome |-> r, heap |-> heap]
                       ELSE [outcome |-> [value |-> Ref(Len(heap) + 1)],
                             heap |-> Append(heap, r.instance)]
              ELSE LET recv == receiver(b.values, f.body.self, heap)
                   IN  IF recv.t # "ref" \/ recv.v \notin 1..Len(heap)
                       THEN [outcome |-> PyError("AttributeError",
                                                 "object has no attribute"),
                             heap |-> heap]
                       ELSE IF ~heap[recv.v].live
                               \/ ~HasMethod(ClassNamed(heap[recv.v].cls), f.body.method)
                       THEN [outcome |-> PyError("AttributeError",
                                                 "object has no attribute"),
                             heap |-> heap]
                       ELSE LET r == invoke(heap[recv.v], f.body.method, inner)
                            IN  IF IsError(r) THEN [outcome |-> r, heap |-> heap]
                                ELSE [outcome |-> [value |-> r.value],
                                      heap |-> [heap EXCEPT ![recv.v] = r.instance]]

\* no class has been handed to class_to_function on its own
NoClass == [name |-> ""]

\* the outcome of a call: the type of the exception it raised ("" if none) and
\* the value it returned
Outcome(result) ==
    IF "error" \in DOMAIN result THEN [raised |-> result.error, value |-> NoneVal]
    ELSE [raised |-> "", value |-> result.value]

\* no call has been made
NoCall ==
    [op |-> "none", kind |-> "", handle |-> 0, method |-> "", foreign |-> FALSE,
     via |-> [raised |-> "", value |-> NoneVal],
     direct |-> [raised |-> "", value |-> NoneVal]]

\* the arguments a constructor is called with
InitCalls ==
    {Call(<<>>, <<>>), Call(<<IntVal(10)>>, <<>>),
     Call(<<>>, <<[k |-> "x", v |-> IntVal(10)]>>)}

\* the arguments a method is called with, after the instance
MethodCalls(method_name) ==
    CASE method_name = "add_to_x" ->
            {Call(<<IntVal(5)>>, <<>>), Call(<<>>, <<[k |-> "value", v |-> IntVal(5)]>>)}
      [] method_name = "greet" -> {Call(<<StrVal>>, <<>>)}
      [] method_name = "record" -> {Call(<<>>, <<>>), Call(<<IntVal(5)>>, <<>>)}
      [] OTHER -> {Call(<<>>, <<>>)}

-----------------------------------------------------------------------------
(* assistant/browser.py: BrowserManager.  The class is modelled as its     *)
(* body defines it; line 4 of the module imports the name bool from        *)
(* typing, which has to be mended before the module can be imported.       *)

None == 0

\* an object of the Playwright library: a Playwright instance or a browser
\* context, running until it is stopped or closed
Launched(kind) == [kind |-> kind, running |-> TRUE]

\* the library call of start() that raises, "none" if none does
StartFailures ==
    {"none", "sync_playwright", "launch_persistent_context", "set_default_timeout",
     "new_page"}

\* the library call of stop() that raises, "none" if none does
StopFailures == {"none", "close", "stop"}

\* how a call of start() or stop() ended: the fields of the manager and the
\* library objects afterwards, whether it raised, and what it returned
Ended(pw, ctx, insts, raised, value) ==
    [playwright |-> pw, browser_context |-> ctx, instances |-> insts,
     raised |-> raised, returned |-> value]

\* every call launches
always_launch(ctx) == FALSE

\* line 233
already_started(ctx) == ctx # None

\* BrowserManager.start, fail being the library call that raises
start(pw, ctx, insts, fail) ==
    IF already_started(ctx)
    THEN Ended(pw, ctx, insts, FALSE, "None")
    ELSE IF fail = "sync_playwright"
    THEN Ended(pw, ctx, insts, TRUE, "")
    ELSE
      LET with_playwright == Append(insts, Launched("playwright"))
          new_playwright == Len(with_playwright)
          with_context == Append(with_playwright, Launched("context"))
          new_context == Len(with_context)
      IN  IF fail = "launch_persistent_context"
          THEN Ended(new_playwright, ctx, with_playwright, TRUE, "")
          ELSE IF fail \in {"set_default_timeout", "new_page"}
          THEN Ended(new_playwright, new_context, with_context, TRUE, "")
          ELSE Ended(new_playwright, new_context, with_context, FALSE, "BrowserPage")

\* lines 336-337
reset_fields(pw, ctx) == [playwright |-> None, browser_context |-> None]

\* BrowserManager.stop, fail being the library call that raises
stop(pw, ctx, insts, fail) ==
    IF ctx # None /\ fail = "close"
    THEN Ended(pw, ctx, insts, TRUE, "")
    ELSE
      LET closed == IF ctx # None THEN [insts EXCEPT ![ctx].running = FALSE] ELSE insts
          stopped == IF pw # None THEN [closed EXCEPT ![pw].running = FALSE] ELSE closed
      IN  IF pw # None /\ fail = "stop"
          THEN Ended(pw, ctx, closed, TRUE, "")
          ELSE Ended(reset_fields(pw, ctx).playwright,
                     reset_fields(pw, ctx).browser_context, stopped, FALSE, "None")

\* no call of start() or stop() has been made
NoOp ==
    [op |-> "none", raised |-> FALSE, returned |-> "", started |-> FALSE,
     had_playwright |-> FALSE, launched |-> 0, closed |-> 0]

\* the number of Playwright instances among the library objects
Launches(insts) == Cardinality({k \in 1..Len(insts) : insts[k].kind = "playwright"})

\* the number of library objects running before a call and no longer after it
Closed(before, after) ==
    Cardinality({k \in 1..Len(before) : before[k].running /\ ~after[k].running})

-----------------------------------------------------------------------------
(* assistant/tools/grocery.py: find_product_at_HEB                         *)

\* find_product_at_HEB has not been called
NoSearch == [arg |-> "absent"]

NotReturned == [returned |-> FALSE]

\* a product_query: a str as its tokens, " " being a space, or an object that
\* is no str
Query(toks) == [str |-> TRUE, text |-> toks]
NotAStr == [str |-> FALSE, text |-> <<>>]

Queries == {Query(<<"milk">>), Query(<<"whole", " ", "milk">>), NotAStr}

\* a product card as the page shows it: stock is what counting its "Out of
\* stock" label gives ("out" when there is one, "raise" when the count fails),
\* title what reading the title attribute gives ("raise" when that fails)
Card(stock, title) == [stock |-> stock, title |-> title]

Cards ==
    {Card("in", "Milk"), Card("in", "Eggs"), Card("in", "raise"),
     Card("out", "Milk"), Card("raise", "Milk")}

\* a browser page: the call of it that raises before the cards are gone
\* through ("none", "goto" or "count"), and its product cards
Page(fails, cards) == [fails |-> fails, cards |-> cards]

Pages ==
    {Page(fails, cards) :
        fails \in {"none", "goto", "count"},
        cards \in UNION {[1..n -> Cards] : n \in 0..MaxCards}}

\* product_query.replace(' ', '%20')
replace(text) == [k \in 1..Len(text) |-> IF text[k] = " " THEN "%20" ELSE text[k]]

search_url(query) == "https://www.heb.com/search?esc=true&q=" \o Join(replace(query.text))

\* every card is taken to be in stock
never_out_of_stock(card) == FALSE

\* lines 83-85
out_of_stock(card) == card.stock = "out"

\* lines 81-91: the for loop from the cards that are left, results being the
\* titles collected so far; raised when a call on a card raises
RECURSIVE collect(_, _)
collect(cards, titles) ==
    IF cards = <<>> THEN [raised |-> FALSE, results |-> titles]
    ELSE IF Head(cards).stock = "raise" THEN [raised |-> TRUE, results |-> titles]
    ELSE IF out_of_stock(Head(cards)) THEN collect(Tail(cards), titles)
    ELSE IF Head(cards).title = "raise" THEN [raised |-> TRUE, results |-> titles]
    ELSE collect(Tail(cards), Append(titles, Head(cards).title))

\* the titles collected before the exception are returned
on_exception_partial(titles) == [raised |-> FALSE, value |-> titles]

\* lines 95-97
on_exception(titles) == [raised |-> FALSE, value |-> <<>>]

\* find_product_at_HEB(product_query, browser_page): what it returns, and the
\* URL it sent the page to
find_product_at_HEB(query, page) ==
    IF ~query.str
    THEN [outcome |-> on_exception(<<>>), visited |-> ""]
    ELSE IF page.fails \in {"goto", "count"}
    THEN [outcome |-> on_exception(<<>>), visited |-> search_url(query)]
    ELSE LET r == collect(page.cards, <<>>)
         IN  [outcome |-> IF r.raised THEN on_exception(r.results)
                          ELSE [raised |-> FALSE, value |-> r.results],
              visited |-> search_url(query)]

-----------------------------------------------------------------------------
(* assistant/agents/agent_utils.py                                         *)

FormatParam(p) ==
    p.name
    \o (IF p.annotation = "_empty" THEN "" ELSE ": " \o p.annotation)
    \o (IF p.default = NoDefault THEN ""
        ELSE IF p.annotation = "_empty" THEN "=" \o p.default
        ELSE " = " \o p.default)

RECURSIVE FormatParams(_)
FormatParams(params) ==
    IF params = <<>> THEN ""
    ELSE IF Len(params) = 1 THEN FormatParam(Head(params))
    ELSE FormatParam(Head(params)) \o ", " \o FormatParams(Tail(params))

\* str(inspect.signature(func))
signature(func) == "(" \o FormatParams(func.params) \o ")"

\* the key get_simple_planner_func_desc stores a description under
desc_key(name, func) == name \o signature(func)

\* simple_call_gpt_model: str.replace raises TypeError when text is None, the
\* request raises AttributeError when client is None; else the model's answer
\* (in the given style) to the prompt holding text, stripped
simple_call_gpt_model(text, cl, style) ==
    IF text.none
    THEN PyError("TypeError", "replace() argument 2 must be str, not None")
    ELSE IF cl = "None"
    THEN PyError("AttributeError", "'NoneType' object has no attribute 'chat'")
    ELSE LET content == <<" ", style>> \o text.text \o <<"\n">>
         IN  [content |-> Join(Strip(content))]

\* replies[i] is the style of the model's answer to the i-th request
get_simple_planner_func_desc(functions_archive, cl, replies) ==
    LET raw == DictUpdate(<<>>,
                   [i \in 1..Len(functions_archive) |->
                       [k |-> desc_key(functions_archive[i].k,
                                       functions_archive[i].v.function),
                        v |-> functions_archive[i].v.description]])
        answers == [i \in 1..Len(raw) |->
                       simple_call_gpt_model(raw[i].v, cl, replies[i])]
    IN  IF \E i \in 1..Len(raw) : IsError(answers[i])
        THEN [raised |-> TRUE, value |-> <<>>]
        ELSE [raised |-> FALSE,
              value |-> [i \in 1..Len(raw) |->
                            [k |-> raw[i].k, v |-> answers[i].content]]]

functions_list(source) ==
    IF source.kind = "module" THEN extract_functions_from_package(source)
    ELSE IF source.kind = "class" THEN DictValues(class_to_function(source))
    ELSE <<>>

archive_items(funcs) ==
    [i \in 1..Len(funcs) |->
        [k |-> funcs[i].name,
         v |-> [function |-> funcs[i], description |-> getdoc(funcs[i])]]]

RECURSIVE collect_archive(_, _)
collect_archive(srcs, archive) ==
    IF srcs = <<>> THEN archive
    ELSE collect_archive(Tail(srcs),
                         DictUpdate(archive, archive_items(functions_list(Head(srcs)))))

sentinel_schema ==
    [type |-> "function",
     function |->
        [name |-> SENTINEL,
         description |->
            "Function should be called when we have completed ALL of the instructions."]]

Raised == [raised |-> TRUE, func_map |-> <<>>, func_desc_map |-> <<>>,
           tools_schema |-> <<>>]

process_functions(srcs, cl, replies) ==
    IF \E i \in 1..Len(srcs) : srcs[i].kind \notin {"module", "class"}
    THEN Raised
    ELSE
      LET functions_archive == collect_archive(srcs, <<>>)
          fmap == [i \in 1..Len(functions_archive) |->
                      [k |-> functions_archive[i].k,
                       v |-> functions_archive[i].v.function]]
          schemas == [i \in 1..Len(fmap) |-> function_to_schema(fmap[i].v)]
          schema == Append(schemas, sentinel_schema)
          descs == get_simple_planner_func_desc(functions_archive, cl, replies)
      IN  IF \E i \in 1..Len(schemas) : IsError(schemas[i]) THEN Raised
          ELSE IF descs.raised THEN Raised
          ELSE [raised |-> FALSE, func_map |-> fmap, func_desc_map |-> descs.value,
                tools_schema |-> schema]

\* the text call_planner puts in place of {functions}
RECURSIVE func_desc_text(_)
func_desc_text(descs) ==
    IF descs = <<>> THEN ""
    ELSE "- " \o Head(descs).k \o ": " \o Head(descs).v
         \o (IF Len(descs) = 1 THEN "" ELSE "\n    " \o func_desc_text(Tail(descs)))

\* what the planning model may answer with
Plans == {"1. call add", "1. call instructions_complete"}

-----------------------------------------------------------------------------
(* Registry construction: grocery_agent.py lines 126-139                   *)

Init ==
    /\ sources \in SourceLists
    /\ client \in Clients
    /\ build = "pending"
    /\ func_map = <<>>
    /\ func_desc_map = <<>>
    /\ tools_schema = <<>>
    /\ plan = ""
    /\ pc = "idle"
    /\ messages = <<>>
    /\ message_list = <<>>
    /\ tool_calls = <<>>
    /\ idx = 0
    /\ turn = 0
    /\ handled = <<>>
    /\ sample_func = NoSample
    /\ sample_schema = NotBuilt
    /\ subject = NoClass
    /\ functions = <<>>
    /\ objects = <<>>
    /\ mirror = <<>>
    /\ last_call = NoCall
    /\ ncalls = 0
    /\ playwright = None
    /\ browser_context = None
    /\ instances = <<>>
    /\ last_op = NoOp
    /\ product_query = NoSearch
    /\ browser_page = NoSearch
    /\ visited = ""
    /\ found = NotReturned

ProcessFunctions ==
    /\ build = "pending"
    /\ \E replies \in [1..Len(collect_archive(sources, <<>>)) -> SummaryStyles] :
          LET r == process_functions(sources, client, replies)
          IN  /\ build' = IF r.raised THEN "raised" ELSE "built"
              /\ func_map' = r.func_map
              /\ func_desc_map' = r.func_desc_map
              /\ tools_schema' = r.tools_schema
    /\ UNCHANGED <<sources, client, plan>>
    /\ UNCHANGED executor_vars
    /\ UNCHANGED schema_vars
    /\ UNCHANGED class_vars
    /\ UNCHANGED browser_vars
    /\ UNCHANGED grocery_vars

CallPlanner ==
    /\ build = "built"
    /\ plan = ""
    /\ \E p \in Plans : plan' = p
    /\ message_list' = message_list \o
          <<[type |-> "status", message |-> "Generating plan..."],
            [type |-> "plan", content |-> plan'],
            [type |-> "status", message |-> "Executing plan..."]>>
    /\ UNCHANGED registry_vars
    /\ UNCHANGED <<pc, messages, tool_calls, idx, turn, handled>>
    /\ UNCHANGED schema_vars
    /\ UNCHANGED class_vars
    /\ UNCHANGED browser_vars
    /\ UNCHANGED grocery_vars

Next == ProcessFunctions \/ CallPlanner

Spec == Init /\ [][Next]_vars

-----------------------------------------------------------------------------
(* The executor loop: grocery_agent.py, call_executor                      *)

\* the registries the executor is run on
ExecSourceLists == {<<ModuleCalc>>, <<ModuleCalc, ModuleText>>}

\* Python values a tool call deals in
PyValue(t, r, e) == [type |-> t, repr |-> r, error |-> e]

ErrorPayload(msg) == PyValue("dict", "", msg)

\* json.loads on the argument payloads the model may send
ArgsObject == "{\"a\": 1, \"b\": 2}"
ArgsArray == "[1]"
ArgsTruncated == "{\"a\": 1"

ArgStrings == {ArgsObject, ArgsArray, ArgsTruncated}

json_loads(str) ==
    CASE str = ArgsObject -> [ok |-> TRUE, kind |-> "dict", keys |-> <<"a", "b">>]
      [] str = ArgsArray -> [ok |-> TRUE, kind |-> "list", keys |-> <<>>]
      [] OTHER -> [ok |-> FALSE, kind |-> "", keys |-> <<>>]

\* json.dumps: raises TypeError on an object that is not JSON serializable
json_dumps(value) ==
    CASE value.type = "dict" ->
            [ok |-> TRUE, out |-> "{\"error\": \"" \o value.error \o "\"}"]
      [] value.type = "int" -> [ok |-> TRUE, out |-> value.repr]
      [] OTHER -> [ok |-> FALSE, out |-> ""]

\* str(value)
py_str(value) ==
    IF value.type = "dict" THEN "{'error': '" \o value.error \o "'}" ELSE value.repr

\* lines 110-113
serialize(function_response) ==
    IF json_dumps(function_response).ok
    THEN json_dumps(function_response).out
    ELSE py_str(function_response)

\* what running the body of a registered tool may do
ToolOutcomes ==
    {[kind |-> "return", value |-> PyValue("int", "3", ""), message |-> ""],
     [kind |-> "return", value |-> PyValue("object", "<BrowserPage>", ""), message |-> ""],
     [kind |-> "raise", value |-> PyValue("none", "None", ""), message |-> "boom"]}

\* func(**input_arguments): the TypeError raised before the body runs, "" if none
bind_error(func, parsed) ==
    LET names == {func.params[i].name : i \in 1..Len(func.params)}
        needed == {func.params[i].name :
                      i \in {j \in 1..Len(func.params) : IsRequired(func.params[j])}}
    IN  IF parsed.kind # "dict"
        THEN func.name \o "() argument after ** must be a mapping, not " \o parsed.kind
        ELSE IF \E i \in 1..Len(parsed.keys) : parsed.keys[i] \notin names
        THEN func.name \o "() got an unexpected keyword argument"
        ELSE IF \E n \in needed : n \notin Range(parsed.keys)
        THEN func.name \o "() missing required positional arguments"
        ELSE ""

\* a payload that does not parse is taken as no arguments
decode_arguments_lenient(input_arguments_str) ==
    LET parsed == json_loads(input_arguments_str)
    IN  [skip |-> FALSE,
         input_arguments |->
            IF parsed.ok THEN parsed ELSE [ok |-> TRUE, kind |-> "dict", keys |-> <<>>]]

\* lines 97-100: skip is TRUE when the loop goes on to the next call
decode_arguments(input_arguments_str) ==
    LET parsed == json_loads(input_arguments_str)
    IN  [skip |-> ~parsed.ok, input_arguments |-> parsed]

\* the exception's message is handed back bare, not as {"error": message}
call_registered_unwrapped(func, input_arguments, outcome) ==
    IF bind_error(func, input_arguments) # ""
    THEN [ran |-> FALSE, outcome |-> "raised",
          error |-> bind_error(func, input_arguments),
          function_response |-> PyValue("str", bind_error(func, input_arguments), "")]
    ELSE IF outcome.kind = "raise"
    THEN [ran |-> TRUE, outcome |-> "raised", error |-> outcome.message,
          function_response |-> PyValue("str", outcome.message, "")]
    ELSE [ran |-> TRUE, outcome |-> "returned", error |-> "",
          function_response |-> outcome.value]

\* lines 103-106: the call of a registered tool, outcome being what its body does
call_registered(func, input_arguments, outcome) ==
    IF bind_error(func, input_arguments) # ""
    THEN [ran |-> FALSE, outcome |-> "raised",
          error |-> bind_error(func, input_arguments),
          function_response |-> ErrorPayload(bind_error(func, input_arguments))]
    ELSE IF outcome.kind = "raise"
    THEN [ran |-> TRUE, outcome |-> "raised", error |-> outcome.message,
          function_response |-> ErrorPayload(outcome.message)]
    ELSE [ran |-> TRUE, outcome |-> "returned", error |-> "",
          function_response |-> outcome.value]

\* the entry is taken out of the dict as it is looked up
after_lookup_pop(fm, function_name) == DictRemove(fm, function_name)

\* lines 102-104: `function_name in func_map` and func_map[function_name] read
\* the dict; this is the dict they leave
after_lookup(fm, function_name) == fm

\* line 108
not_implemented(function_name) ==
    [ran |-> FALSE, outcome |-> "not_implemented", error |-> "",
     function_response |->
        ErrorPayload("Function '" \o function_name \o "' not implemented.")]

\* lines 82-87: where the loop goes after the assistant message is appended
after_turn(calls) ==
    IF calls # <<>> /\ calls[1].name = SENTINEL THEN "complete"
    ELSE IF calls = <<>> THEN "request"
    ELSE "tool"

\* the set is left after its first call
after_call_first_only(calls, i) == [pc |-> "request", idx |-> 0]

\* the for loop of line 89: where the loop goes after the call at position i
after_call(calls, i) ==
    IF i < Len(calls) THEN [pc |-> "tool", idx |-> i + 1]
    ELSE [pc |-> "request", idx |-> 0]

CallNames == {"add", SENTINEL, "lookup"}

\* the (name, arguments) pairs a tool call may hold; the payload that is no
\* JSON object is sent to the registered tool add only
CallShapes ==
    {c \in [name : CallNames, arguments : ArgStrings] :
        c.arguments = ArgsArray => c.name = "add"}

ToolCall(t, i, c) == [id |-> <<t, i>>, name |-> c.name, arguments |-> c.arguments]

\* the tool calls a model turn may hold, at most `room` of them
CallSeqs(t, room) ==
    UNION {{[i \in 1..n |-> ToolCall(t, i, cs[i])] : cs \in [1..n -> CallShapes]} :
           n \in 0..room}

EXECUTOR_PROMPT(p) == "PLAN: " \o p

ExecInit ==
    /\ sources \in ExecSourceLists
    /\ client = "OpenAI"
    /\ build = "built"
    /\ LET r == process_functions(sources, client,
                    [i \in 1..Len(collect_archive(sources, <<>>)) |-> "Summary: "])
       IN  /\ func_map = r.func_map
           /\ func_desc_map = r.func_desc_map
           /\ tools_schema = r.tools_schema
    /\ plan = "1. call add"
    /\ pc = "request"
    /\ messages = <<[role |-> "system", content |-> EXECUTOR_PROMPT(plan)]>>
    /\ message_list =
          <<[type |-> "status", message |-> "Generating plan..."],
            [type |-> "plan", content |-> plan],
            [type |-> "status", message |-> "Executing plan..."]>>
    /\ tool_calls = <<>>
    /\ idx = 0
    /\ turn = 0
    /\ handled = <<>>
    /\ sample_func = NoSample
    /\ sample_schema = NotBuilt
    /\ subject = NoClass
    /\ functions = <<>>
    /\ objects = <<>>
    /\ mirror = <<>>
    /\ last_call = NoCall
    /\ ncalls = 0
    /\ playwright = None
    /\ browser_context = None
    /\ instances = <<>>
    /\ last_op = NoOp
    /\ product_query = NoSearch
    /\ browser_page = NoSearch
    /\ visited = ""
    /\ found = NotReturned

\* lines 69-87: one model turn
ModelTurn ==
    /\ pc = "request"
    /\ turn < MaxTurns
    /\ \E calls \in CallSeqs(turn + 1, MaxCalls - Len(handled)) :
          LET assistant_message ==
                  [role |-> "assistant", content |-> "thinking", tool_calls |-> calls]
              goto == after_turn(calls)
          IN  /\ messages' = Append(messages, assistant_message)
              /\ message_list' =
                    Append(message_list, [type |-> "assistant", content |-> "thinking"])
                    \o (IF goto = "complete"
                        THEN <<[type |-> "status", message |-> "Processing complete."]>>
                        ELSE <<>>)
              /\ pc' = goto
              /\ tool_calls' = IF goto = "tool" THEN calls ELSE <<>>
              /\ idx' = IF goto = "tool" THEN 1 ELSE 0
    /\ turn' = turn + 1
    /\ UNCHANGED handled
    /\ UNCHANGED <<plan>>
    /\ UNCHANGED registry_vars
    /\ UNCHANGED schema_vars
    /\ UNCHANGED class_vars
    /\ UNCHANGED browser_vars
    /\ UNCHANGED grocery_vars

\* lines 89-121: one iteration of the for loop
HandleToolCall ==
    /\ pc = "tool"
    /\ LET tool == tool_calls[idx]
           decoded == decode_arguments(tool.arguments)
           goto == after_call(tool_calls, idx)
           logged == Append(message_list,
                            [type |-> "tool_call", function_name |-> tool.name,
                             arguments |-> tool.arguments])
       IN  /\ pc' = goto.pc
           /\ idx' = goto.idx
           /\ tool_calls' = IF goto.pc = "tool" THEN tool_calls ELSE <<>>
           /\ IF decoded.skip
              THEN /\ messages' = messages
                   /\ message_list' = logged
                   /\ func_map' = func_map
                   /\ handled' = Append(handled,
                          [id |-> tool.id, name |-> tool.name, outcome |-> "skipped",
                           ran |-> FALSE, resolved |-> FALSE, error |-> ""])
              ELSE \E outcome \in ToolOutcomes :
                      LET r == IF tool.name \in DictKeys(func_map)
                               THEN call_registered(DictGet(func_map, tool.name),
                                                    decoded.input_arguments, outcome)
                               ELSE not_implemented(tool.name)
                          serialized_output == serialize(r.function_response)
                      IN  /\ func_map' = after_lookup(func_map, tool.name)
                          /\ messages' = Append(messages,
                                 [role |-> "tool", tool_call_id |-> tool.id,
                                  content |-> serialized_output])
                          /\ message_list' = Append(logged,
                                 [type |-> "tool_response", function_name |-> tool.name,
                                  response |-> serialized_output])
                          /\ handled' = Append(handled,
                                 [id |-> tool.id, name |-> tool.name,
                                  outcome |-> r.outcome, ran |-> r.ran,
                                  resolved |-> TRUE, error |-> r.error])
    /\ UNCHANGED <<plan, turn>>
    /\ UNCHANGED <<sources, client, build, func_desc_map, tools_schema>>
    /\ UNCHANGED schema_vars
    /\ UNCHANGED class_vars
    /\ UNCHANGED browser_vars
    /\ UNCHANGED grocery_vars

ExecNext == ModelTurn \/ HandleToolCall

ExecSpec == ExecInit /\ [][ExecNext]_vars

-----------------------------------------------------------------------------
(* function_to_schema on one callable, as the tests of test_utils.py call it *)

SchemaInit ==
    /\ sample_func \in SampleFuncs
    /\ sample_schema = NotBuilt
    /\ subject = NoClass
    /\ functions = <<>>
    /\ objects = <<>>
    /\ mirror = <<>>
    /\ last_call = NoCall
    /\ ncalls = 0
    /\ playwright = None
    /\ browser_context = None
    /\ instances = <<>>
    /\ last_op = NoOp
    /\ product_query = NoSearch
    /\ browser_page = NoSearch
    /\ visited = ""
    /\ found = NotReturned
    /\ sources = <<>>
    /\ client = "OpenAI"
    /\ build = "pending"
    /\ func_map = <<>>
    /\ func_desc_map = <<>>
    /\ tools_schema = <<>>
    /\ plan = ""
    /\ pc = "idle"
    /\ messages = <<>>
    /\ message_list = <<>>
    /\ tool_calls = <<>>
    /\ idx = 0
    /\ turn = 0
    /\ handled = <<>>

FunctionToSchema ==
    /\ sample_func # NoSample
    /\ sample_schema = NotBuilt
    /\ sample_schema' = function_to_schema(sample_func)
    /\ UNCHANGED sample_func
    /\ UNCHANGED registry_vars
    /\ UNCHANGED executor_vars
    /\ UNCHANGED plan
    /\ UNCHANGED class_vars
    /\ UNCHANGED browser_vars
    /\ UNCHANGED grocery_vars

SchemaNext == FunctionToSchema

SchemaSpec == SchemaInit /\ [][SchemaNext]_vars

-----------------------------------------------------------------------------
(* class_to_function on one class, and calls of the functions it returns,  *)
(* as the tests of test_utils.py make them                                 *)

ClassInit ==
    /\ subject \in Classes
    /\ functions = <<>>
    /\ objects = <<>>
    /\ mirror = <<>>
    /\ last_call = NoCall
    /\ ncalls = 0
    /\ playwright = None
    /\ browser_context = None
    /\ instances = <<>>
    /\ last_op = NoOp
    /\ product_query = NoSearch
    /\ browser_page = NoSearch
    /\ visited = ""
    /\ found = NotReturned
    /\ sample_func = NoSample
    /\ sample_schema = NotBuilt
    /\ sources = <<>>
    /\ client = "OpenAI"
    /\ build = "pending"
    /\ func_map = <<>>
    /\ func_desc_map = <<>>
    /\ tools_schema = <<>>
    /\ plan = ""
    /\ pc = "idle"
    /\ messages = <<>>
    /\ message_list = <<>>
    /\ tool_calls = <<>>
    /\ idx = 0
    /\ turn = 0
    /\ handled = <<>>

\* funcs = class_to_function(cls)
ClassToFunction ==
    /\ subject # NoClass
    /\ functions = <<>>
    /\ functions' = class_to_function(subject)
    /\ UNCHANGED <<subject, objects, mirror, last_call, ncalls>>
    /\ UNCHANGED <<registry_vars, executor_vars, plan, schema_vars>>
    /\ UNCHANGED browser_vars
    /\ UNCHANGED grocery_vars

\* funcs["initialize_<class>"](...), and cls(...) with the same arguments
CallInitialize ==
    /\ functions # <<>>
    /\ Len(objects) < MaxInstances
    /\ \E call \in InitCalls :
          LET f == DictGet(functions, "initialize_" \o snake_case(subject.chars))
              via == call_generated(f, call, objects)
              made == construct(subject, call)
          IN  /\ objects' = IF Len(via.heap) = Len(objects)
                            THEN Append(via.heap, NoInstance) ELSE via.heap
              /\ mirror' = Append(mirror, IF IsError(made) THEN NoInstance
                                          ELSE made.instance)
              /\ last_call' =
                    [op |-> "initialize", kind |-> f.body.kind,
                     handle |-> Len(objects) + 1, method |-> "", foreign |-> FALSE,
                     via |-> Outcome(via.outcome),
                     direct |-> Outcome(IF IsError(made) THEN made
                                        ELSE [value |-> Ref(Len(mirror) + 1)])]
    /\ UNCHANGED <<subject, functions, ncalls>>
    /\ UNCHANGED <<registry_vars, executor_vars, plan, schema_vars>>
    /\ UNCHANGED browser_vars
    /\ UNCHANGED grocery_vars

\* the handles a method function may be handed: an instance, or a str
Handles == {Ref(h) : h \in {k \in 1..Len(objects) : objects[k].live}} \cup {StrVal}

\* funcs["<method>_<class>"](handle, ...), and instance.<method>(...) with the
\* same arguments when the handle is an instance of the class
CallMethod ==
    /\ functions # <<>>
    /\ ncalls < MaxMethodCalls
    /\ \E m \in Range(public_methods(subject.members)), recv \in Handles :
       \E call \in MethodCalls(Join(m.attr)) :
          LET method_name == Join(m.attr)
              f == DictGet(functions, method_name \o "_" \o snake_case(subject.chars))
              via == call_generated(f, Call(<<recv>> \o call.args, call.kwargs), objects)
              own == recv.t = "ref" /\ objects[recv.v].cls = subject.name
              made == IF own /\ mirror[recv.v].live
                      THEN invoke(mirror[recv.v], method_name, call)
                      ELSE [value |-> NoneVal]
          IN  /\ objects' = via.heap
              /\ mirror' = IF own /\ mirror[recv.v].live /\ ~IsError(made)
                           THEN [mirror EXCEPT ![recv.v] = made.instance] ELSE mirror
              /\ last_call' =
                    [op |-> "method", kind |-> f.body.kind,
                     handle |-> IF recv.t = "ref" THEN recv.v ELSE 0,
                     method |-> method_name, foreign |-> ~own,
                     via |-> Outcome(via.outcome), direct |-> Outcome(made)]
    /\ ncalls' = ncalls + 1
    /\ UNCHANGED <<subject, functions>>
    /\ UNCHANGED <<registry_vars, executor_vars, plan, schema_vars>>
    /\ UNCHANGED browser_vars
    /\ UNCHANGED grocery_vars

\* an instance of another class is constructed directly
ConstructOther ==
    /\ functions # <<>>
    /\ Len(objects) < MaxInstances
    /\ \E c \in Classes \ {subject} :
          LET made == construct(c, CHOOSE call \in InitCalls :
                                      ~IsError(construct(c, call)))
          IN  /\ objects' = Append(objects, made.instance)
              /\ mirror' = Append(mirror, made.instance)
              /\ last_call' = [NoCall EXCEPT !.op = "construct",
                                             !.handle = Len(objects) + 1,
                                             !.foreign = TRUE]
    /\ UNCHANGED <<subject, functions, ncalls>>
    /\ UNCHANGED <<registry_vars, executor_vars, plan, schema_vars>>
    /\ UNCHANGED browser_vars
    /\ UNCHANGED grocery_vars

ClassNext == ClassToFunction \/ CallInitialize \/ CallMethod \/ ConstructOther

ClassSpec == ClassInit /\ [][ClassNext]_vars

-----------------------------------------------------------------------------
(* One BrowserManager and the calls of start() and stop() made on it, each *)
(* call ending as the Playwright library lets it                           *)

BrowserInit ==
    /\ playwright = None
    /\ browser_context = None
    /\ instances = <<>>
    /\ last_op = NoOp
    /\ product_query = NoSearch
    /\ browser_page = NoSearch
    /\ visited = ""
    /\ found = NotReturned
    /\ sample_func = NoSample
    /\ sample_schema = NotBuilt
    /\ subject = NoClass
    /\ functions = <<>>
    /\ objects = <<>>
    /\ mirror = <<>>
    /\ last_call = NoCall
    /\ ncalls = 0
    /\ sources = <<>>
    /\ client = "OpenAI"
    /\ build = "pending"
    /\ func_map = <<>>
    /\ func_desc_map = <<>>
    /\ tools_schema = <<>>
    /\ plan = ""
    /\ pc = "idle"
    /\ messages = <<>>
    /\ message_list = <<>>
    /\ tool_calls = <<>>
    /\ idx = 0
    /\ turn = 0
    /\ handled = <<>>

\* manager.start()
Start ==
    /\ \E fail \in StartFailures :
          LET r == start(playwright, browser_context, instances, fail)
          IN  /\ Launches(r.instances) <= MaxLaunches
              /\ playwright' = r.playwright
              /\ browser_context' = r.browser_context
              /\ instances' = r.instances
              /\ last_op' = [op |-> "start", raised |-> r.raised,
                             returned |-> r.returned,
                             started |-> browser_context # None,
                             had_playwright |-> playwright # None,
                             launched |-> Len(r.instances) - Len(instances),
                             closed |-> Closed(instances, r.instances)]
    /\ UNCHANGED <<registry_vars, executor_vars, plan, schema_vars, class_vars>>
    /\ UNCHANGED grocery_vars

\* manager.stop()
Stop ==
    /\ \E fail \in StopFailures :
          LET r == stop(playwright, browser_context, instances, fail)
          IN  /\ playwright' = r.playwright
              /\ browser_context' = r.browser_context
              /\ instances' = r.instances
              /\ last_op' = [op |-> "stop", raised |-> r.raised,
                             returned |-> r.returned,
                             started |-> browser_context # None,
                             had_playwright |-> playwright # None,
                             launched |-> 0,
                             closed |-> Closed(instances, r.instances)]
    /\ UNCHANGED <<registry_vars, executor_vars, plan, schema_vars, class_vars>>
    /\ UNCHANGED grocery_vars

BrowserNext == Start \/ Stop

BrowserSpec == BrowserInit /\ [][BrowserNext]_vars

-----------------------------------------------------------------------------
(* find_product_at_HEB on one query and one page, as the tests of          *)
(* test_grocery.py call it                                                 *)

GroceryInit ==
    /\ product_query \in Queries
    /\ browser_page \in Pages
    /\ visited = ""
    /\ found = NotReturned
    /\ playwright = None
    /\ browser_context = None
    /\ instances = <<>>
    /\ last_op = NoOp
    /\ sample_func = NoSample
    /\ sample_schema = NotBuilt
    /\ subject = NoClass
    /\ functions = <<>>
    /\ objects = <<>>
    /\ mirror = <<>>
    /\ last_call = NoCall
    /\ ncalls = 0
    /\ sources = <<>>
    /\ client = "OpenAI"
    /\ build = "pending"
    /\ func_map = <<>>
    /\ func_desc_map = <<>>
    /\ tools_schema = <<>>
    /\ plan = ""
    /\ pc = "idle"
    /\ messages = <<>>
    /\ message_list = <<>>
    /\ tool_calls = <<>>
    /\ idx = 0
    /\ turn = 0
    /\ handled = <<>>

\* results = find_product_at_HEB(product_query, browser_page)
FindProduct ==
    /\ product_query # NoSearch
    /\ found = NotReturned
    /\ LET r == find_product_at_HEB(product_query, browser_page)
       IN  /\ found' = [returned |-> TRUE, raised |-> r.outcome.raised,
                        value |-> r.outcome.value]
           /\ visited' = r.visited
    /\ UNCHANGED <<product_query, browser_page>>
    /\ UNCHANGED <<registry_vars, executor_vars, plan, schema_vars, class_vars>>
    /\ UNCHANGED browser_vars

GroceryNext == FindProduct

GrocerySpec == GroceryInit /\ [][GroceryNext]_vars

-----------------------------------------------------------------------------
(* Properties of the executor loop                                         *)

AssistantMessages == SelectSeq(messages, LAMBDA m : m.role = "assistant")

\* the tool calls of the t-th model turn
TurnCalls(t) == AssistantMessages[t].tool_calls

\* positions in messages of the tool responses to call id
ToolResponses(id) ==
    {m \in 1..Len(messages) :
        messages[m].role = "tool" /\ messages[m].tool_call_id = id}

HandledIds == [k \in 1..Len(handled) |-> handled[k].id]

\* the loop has left the call at position i of turn t behind it, has gone through
\* the calls after it once the set is finished, and has not completed in turn t
MovedOn(t, i) ==
    /\ turn = t => pc \in {"tool", "request"}
    /\ IF pc = "tool" /\ turn = t
       THEN idx > i
       ELSE \A j \in (i + 1)..Len(TurnCalls(t)) : <<t, j>> \in Range(HandledIds)

\* C1 (as claimed): a turn that selects instructions_complete in any of its tool
\* calls is the last one, the loop being complete, and that call is neither looked
\* up in func_map nor answered with a tool response.
C1_SentinelAnywhereCompletes ==
    \A t \in 1..Len(AssistantMessages) :
        \A j \in 1..Len(TurnCalls(t)) :
            TurnCalls(t)[j].name = SENTINEL =>
                /\ t = turn
                /\ pc = "complete"
                /\ ToolResponses(TurnCalls(t)[j].id) = {}
                /\ \A k \in 1..Len(handled) :
                      handled[k].id = TurnCalls(t)[j].id => ~handled[k].resolved

\* C2: a registered tool that raised is answered with exactly one tool response,
\* {"error": <message>} under the call's id, the calls after it in the turn are
\* gone through, and the loop goes on to request the next turn.
C2_ToolErrorCaptured ==
    \A k \in 1..Len(handled) :
        handled[k].outcome = "raised" =>
            /\ Cardinality(ToolResponses(handled[k].id)) = 1
            /\ \A m \in ToolResponses(handled[k].id) :
                  messages[m].content = "{\"error\": \"" \o handled[k].error \o "\"}"
            /\ MovedOn(handled[k].id[1], handled[k].id[2])

\* C2 witness: the first call of the first turn ran a tool that raised, the call
\* after it was handled, and the second turn was requested
C2_Witness ==
    /\ Len(handled) >= 2
    /\ handled[1].id = <<1, 1>>
    /\ handled[1].outcome = "raised"
    /\ handled[1].ran
    /\ handled[2].id = <<1, 2>>
    /\ turn = 2

IsMalformed(call) == ~json_loads(call.arguments).ok

\* C3: a call whose arguments do not parse invokes nothing (func_map is not
\* consulted, no tool body runs, no response is appended), the calls after it in
\* the turn are gone through in order, and the loop goes on to the next turn.
C3_MalformedArgumentsSkipped ==
    \A k \in 1..Len(handled) :
        LET t == handled[k].id[1]
            i == handled[k].id[2]
        IN  IsMalformed(TurnCalls(t)[i]) =>
                /\ ~handled[k].ran
                /\ ~handled[k].resolved
                /\ ToolResponses(handled[k].id) = {}
                /\ MovedOn(t, i)
                /\ k < Len(handled) /\ handled[k + 1].id[1] = t
                      => handled[k + 1].id = <<t, i + 1>>

\* C3 witness: a malformed first call was followed by a call of the same turn
\* that ran its tool, and the second turn was requested
C3_Witness ==
    /\ Len(handled) >= 2
    /\ handled[1].id = <<1, 1>>
    /\ IsMalformed(TurnCalls(1)[1])
    /\ handled[2].id = <<1, 2>>
    /\ handled[2].ran
    /\ turn = 2

\* the ids of the tool calls of turns 1..n, in the order the model returned them
RECURSIVE CallIdsUpTo(_)
CallIdsUpTo(n) ==
    IF n = 0 THEN <<>>
    ELSE CallIdsUpTo(n - 1) \o [j \in 1..Len(TurnCalls(n)) |-> TurnCalls(n)[j].id]

\* the calls the loop has to handle: those of every turn but a completing one
DueIds == CallIdsUpTo(IF pc = "complete" THEN turn - 1 ELSE turn)

ToolMessages == SelectSeq(messages, LAMBDA m : m.role = "tool")

AnsweredIds ==
    LET answered == SelectSeq(handled, LAMBDA h : h.outcome # "skipped")
    IN  [k \in 1..Len(answered) |-> answered[k].id]

\* the number of assistant messages among the first m messages
AssistantsBefore(m) ==
    Cardinality({n \in 1..m : messages[n].role = "assistant"})

\* C4: calls are handled one at a time in the order the model returned them; when a
\* call is about to be handled the responses to the calls before it are already in
\* the conversation, each after its own assistant message; only the calls of the
\* latest turn can be outstanding, and no turn is requested while any is.
C4_SerialExecution ==
    /\ Len(handled) <= Len(DueIds)
    /\ HandledIds = SubSeq(DueIds, 1, Len(handled))
    /\ [m \in 1..Len(ToolMessages) |-> ToolMessages[m].tool_call_id] = AnsweredIds
    /\ \A m \in 1..Len(messages) :
          messages[m].role = "tool" =>
              AssistantsBefore(m) = messages[m].tool_call_id[1]
    /\ pc = "tool" =>
          /\ tool_calls = TurnCalls(turn)
          /\ idx \in 1..Len(tool_calls)
          /\ Len(handled) = Len(DueIds) - (Len(tool_calls) - idx + 1)
    /\ pc \in {"request", "complete"} => Len(handled) = Len(DueIds)

\* C4 witness: the third call of a turn is about to be handled and the two before
\* it have been answered
C4_Witness ==
    /\ pc = "tool"
    /\ idx = 3
    /\ Len(handled) = 2
    /\ Len(ToolMessages) = 2

\* C5 (as claimed): the loop goes back to requesting a model turn only after a
\* turn that requested tool calls, so that a turn with no tool calls ends the run.
C5_NoToolCallsEndsRun ==
    (pc = "request" /\ turn > 0) => TurnCalls(turn) # <<>>

\* C28 (as claimed): whenever a model turn is about to be requested, every tool
\* call of every assistant message so far has exactly one tool message with its
\* id, lying after that assistant message and before the next one.
C28_EveryCallAnswered ==
    pc = "request" =>
        \A t \in 1..Len(AssistantMessages) :
            \A j \in 1..Len(TurnCalls(t)) :
                /\ Cardinality(ToolResponses(TurnCalls(t)[j].id)) = 1
                /\ \A m \in ToolResponses(TurnCalls(t)[j].id) : AssistantsBefore(m) = t

\* C29 (as claimed): a tool call whose name is not a key of func_map, the
\* sentinel after the first position included, runs no tool, is answered with
\* the one tool response {"error": "Function '<name>' not implemented."}, and
\* the loop goes on with the calls after it and the next turn.
C29_UnregisteredAnswered ==
    \A k \in 1..Len(handled) :
        handled[k].name \notin DictKeys(func_map) =>
            /\ ~handled[k].ran
            /\ Cardinality(ToolResponses(handled[k].id)) = 1
            /\ \A m \in ToolResponses(handled[k].id) :
                  messages[m].content =
                     "{\"error\": \"Function '" \o handled[k].name
                        \o "' not implemented.\"}"
            /\ MovedOn(handled[k].id[1], handled[k].id[2])

\* C22: no step of the executor loop adds, removes or replaces an entry of the
\* callables map, of the schema list or of the descriptions map.
C22_RegistryImmutable ==
    [][/\ func_map' = func_map
       /\ tools_schema' = tools_schema
       /\ func_desc_map' = func_desc_map]_vars

\* C22 witness: a run that is complete after a tool was invoked and raised, a
\* call was skipped for its arguments and the sentinel was selected, the
\* callables map still holding the tool that was invoked
C22_Witness ==
    /\ pc = "complete"
    /\ Len(handled) = 2
    /\ handled[1].outcome = "raised" /\ handled[1].ran
    /\ handled[2].outcome = "skipped"
    /\ handled[1].name \in DictKeys(func_map)
    /\ Len(tools_schema) = Len(func_map) + 1

-----------------------------------------------------------------------------
(* Properties of the registry                                              *)

SchemaName(i) == tools_schema[i].function.name

SchemasNamed(name) == {i \in 1..Len(tools_schema) : SchemaName(i) = name}

\* C6 (as claimed): the keys of func_map are the names of the schemas other than
\* the sentinel's, and every name in the schema list names exactly one schema.
C6_KeysMatchSchemaNames ==
    build = "built" =>
        /\ DictKeys(func_map) =
              {SchemaName(i) :
                  i \in {j \in 1..Len(tools_schema) : tools_schema[j] # sentinel_schema}}
        /\ \A i \in 1..Len(tools_schema) :
              Cardinality(SchemasNamed(SchemaName(i))) = 1

\* C7 (as claimed): func_desc_map has the same keys as func_map, the tool names.
C7_DescriptionsKeyedByName ==
    build = "built" => DictKeys(func_desc_map) = DictKeys(func_map)

\* C8 (as claimed): the schema list holds the sentinel schema exactly once, as its
\* last entry and without parameters, and func_map has no key instructions_complete.
C8_SentinelOnceLastAbsent ==
    build = "built" =>
        /\ Cardinality(SchemasNamed(SENTINEL)) = 1
        /\ SchemaName(Len(tools_schema)) = SENTINEL
        /\ "parameters" \notin DOMAIN tools_schema[Len(tools_schema)].function
        /\ SENTINEL \notin DictKeys(func_map)

\* the sources that register a tool called name
Registering(name) ==
    {i \in 1..Len(sources) :
        \E f \in Range(functions_list(sources[i])) : f.name = name}

\* the callable the last of them registers under that name
LastRegistered(name) ==
    LET funcs == functions_list(
                    sources[CHOOSE i \in Registering(name) :
                                \A j \in Registering(name) : j <= i])
        last == CHOOSE i \in 1..Len(funcs) :
                    /\ funcs[i].name = name
                    /\ \A j \in 1..Len(funcs) : funcs[j].name = name => j <= i
    IN  funcs[last]

\* the keys under which a description of a callable registered as name is stored
DescKeysFor(name) ==
    {desc_key(name, f) :
        f \in {g \in UNION {Range(functions_list(sources[i])) : i \in 1..Len(sources)} :
                  g.name = name}}

\* C9 (as claimed): a name registered by two sources has exactly one entry in
\* func_map, in the schema list and in func_desc_map, each that of the callable of
\* the later source.
C9_LastRegistrationWins ==
    build = "built" =>
        \A name \in {n \in DictKeys(func_map) : Cardinality(Registering(n)) >= 2} :
            LET f == LastRegistered(name)
            IN  /\ Cardinality({i \in 1..Len(func_map) : func_map[i].k = name}) = 1
                /\ DictGet(func_map, name) = f
                /\ Cardinality(SchemasNamed(name)) = 1
                /\ \A i \in SchemasNamed(name) :
                      /\ tools_schema[i].function.description = Join(Strip(f.doc.text))
                      /\ "parameters" \in DOMAIN tools_schema[i].function
                      /\ tools_schema[i].function.parameters.required = required(f.params)
                /\ Cardinality({i \in 1..Len(func_desc_map) :
                                   func_desc_map[i].k \in DescKeysFor(name)}) = 1
                /\ \E style \in SummaryStyles :
                      [k |-> desc_key(name, f),
                       v |-> simple_call_gpt_model(getdoc(f), client, style).content]
                          \in Range(func_desc_map)

\* every callable the sources register
Registered ==
    UNION {Range(functions_list(sources[i])) : i \in 1..Len(sources)}

\* the list holds modules and classes only
SupportedSources == \A i \in 1..Len(sources) : sources[i].kind \in {"module", "class"}

\* every registered callable has a documentation string
AllDocumented == \A f \in Registered : ~getdoc(f).none

\* the signature of every registered callable can be determined
AllIntrospectable == \A f \in Registered : f.introspectable

\* C11 (as claimed): run without a summarization service (client None) on sources
\* that are otherwise fine, process_functions still returns the registry, and the
\* description of every registered tool is that tool's documentation string.
C11_RawDocFallback ==
    (/\ build # "pending"
     /\ client = "None"
     /\ SupportedSources /\ AllDocumented /\ AllIntrospectable) =>
        /\ build = "built"
        /\ \A i \in 1..Len(func_map) :
              \E j \in 1..Len(func_desc_map) :
                 /\ func_desc_map[j].k \in
                       {func_map[i].k, desc_key(func_map[i].k, func_map[i].v)}
                 /\ func_desc_map[j].v \in
                       {Join(func_map[i].v.doc.text), Join(getdoc(func_map[i].v).text)}

\* the sources none of whose callables has an undeterminable signature
SoundSources ==
    {i \in 1..Len(sources) :
        \A f \in Range(functions_list(sources[i])) : f.introspectable}

\* C12 (as claimed): when the signature of a registered callable cannot be
\* determined, no registry with a schema for that callable is returned, and the
\* failure halts registration for the offending source only: the tools of the
\* other sources are registered.
C12_OpaqueHaltsOnlyItsSource ==
    (/\ build # "pending"
     /\ client = "OpenAI"
     /\ SupportedSources /\ AllDocumented /\ ~AllIntrospectable) =>
        /\ \A i \in 1..Len(tools_schema) :
              \A f \in Registered :
                 ~f.introspectable => tools_schema[i].function.name # f.name
        /\ \A i \in SoundSources :
              \A f \in Range(functions_list(sources[i])) :
                 f.name \in DictKeys(func_map)

-----------------------------------------------------------------------------
(* Properties of function_to_schema                                        *)

\* function_to_schema has been called on sample_func
SchemaBuilt == sample_schema # NotBuilt

SampleParams == sample_func.params

SampleProperties == sample_schema.function.parameters.properties

\* the names of the parameters without a default, in declaration order
WithoutDefault ==
    LET kept == SelectSeq(SampleParams, LAMBDA q : q.default = NoDefault)
    IN  [i \in 1..Len(kept) |-> kept[i].name]

\* C13 (as claimed): for every function whose parameters can be read, the schema
\* has one property per declared parameter and no other, and required lists
\* exactly the parameters without a default, in declaration order; a parameter
\* with the default None is not required.
C13_PropertiesAndRequired ==
    (SchemaBuilt /\ sample_func.introspectable) =>
        /\ ~IsError(sample_schema)
        /\ DictKeys(SampleProperties) =
              {SampleParams[i].name : i \in 1..Len(SampleParams)}
        /\ Len(SampleProperties) = Len(SampleParams)
        /\ sample_schema.function.parameters.required = WithoutDefault
        /\ \A i \in 1..Len(SampleParams) :
              SampleParams[i].default = "None" =>
                 SampleParams[i].name
                    \notin Range(sample_schema.function.parameters.required)

\* the annotations type_map recognises, None being written either way
Recognised == {"str", "int", "float", "bool", "list", "dict", "None", "NoneType"}

\* C14 (as claimed): the type mapping never fails, and a parameter whose
\* annotation is absent or is not a recognised type has the schema type "string".
C14_TypeMappingTotal ==
    (SchemaBuilt /\ sample_func.introspectable) =>
        /\ ~IsError(sample_schema)
        /\ \A i \in 1..Len(SampleParams) :
              SampleParams[i].annotation \notin Recognised =>
                 DictGet(SampleProperties, SampleParams[i].name).type = "string"

\* the schema type the claim gives each supported annotation
SupportedType(annotation) ==
    CASE annotation = "str" -> "string"
      [] annotation = "int" -> "integer"
      [] annotation = "float" -> "number"
      [] annotation = "bool" -> "boolean"
      [] annotation = "list" -> "array"
      [] annotation = "dict" -> "object"
      [] annotation = "None" -> "null"

\* C15 (as claimed): in a schema function_to_schema returns, a parameter annotated
\* str, int, float, bool, list, dict or None has the type "string", "integer",
\* "number", "boolean", "array", "object" or "null" respectively.
C15_SupportedTypesMapped ==
    (SchemaBuilt /\ ~IsError(sample_schema)) =>
        \A i \in 1..Len(SampleParams) :
           SampleParams[i].annotation
                 \in {"str", "int", "float", "bool", "list", "dict", "None"} =>
              DictGet(SampleProperties, SampleParams[i].name).type
                 = SupportedType(SampleParams[i].annotation)

AllSpace(toks) == \A i \in 1..Len(toks) : IsSpace(toks[i])

\* mid is text without the whitespace at its two ends
IsTrimOf(mid, text) ==
    /\ mid = <<>> \/ (~IsSpace(mid[1]) /\ ~IsSpace(mid[Len(mid)]))
    /\ \E i \in 0..Len(text) :
          /\ i + Len(mid) <= Len(text)
          /\ mid = SubSeq(text, i + 1, i + Len(mid))
          /\ AllSpace(SubSeq(text, 1, i))
          /\ AllSpace(SubSeq(text, i + Len(mid) + 1, Len(text)))

\* C16 (as claimed): for every callable whose signature can be read a schema is
\* returned, its name is the callable's own identifier and its description is the
\* documentation string without the whitespace at its ends, the empty string
\* when there is no documentation string.
C16_NameAndDescription ==
    (SchemaBuilt /\ sample_func.introspectable) =>
        /\ ~IsError(sample_schema)
        /\ sample_schema.function.name = sample_func.name
        /\ sample_func.doc.none => sample_schema.function.description = ""
        /\ ~sample_func.doc.none =>
              \E n \in 0..Len(sample_func.doc.text), i \in 0..Len(sample_func.doc.text) :
                 /\ i + n <= Len(sample_func.doc.text)
                 /\ IsTrimOf(SubSeq(sample_func.doc.text, i + 1, i + n),
                             sample_func.doc.text)
                 /\ sample_schema.function.description =
                       Join(SubSeq(sample_func.doc.text, i + 1, i + n))

-----------------------------------------------------------------------------
(* Properties of class_to_function and of the functions it generates       *)

\* the snake_case form of the names of the classes
ExpectedSnake ==
    CASE subject.name = "Example" -> "example"
      [] subject.name = "EmptyClass" -> "empty_class"
      [] subject.name = "Tally" -> "tally"
      [] subject.name = "Session" -> "session"
      [] subject.name = "Ledger" -> "ledger"

\* the names of the methods of the class that do not start with an underscore
PublicNames ==
    {Join(subject.members[i].attr) :
        i \in {j \in 1..Len(subject.members) : Head(subject.members[j].attr) # "_"}}

\* C17 (as claimed): for a class with n public methods class_to_function returns
\* exactly n+1 callables: initialize_<snake_case(C)>, which constructs, and
\* <m>_<snake_case(C)> for each public method m, which calls m; no callable stands
\* for a method whose name starts with an underscore.
C17_OneCallablePerPublicMethod ==
    functions # <<>> =>
        /\ Len(functions) = Cardinality(PublicNames) + 1
        /\ \E i \in 1..Len(functions) :
              /\ functions[i].k = "initialize_" \o ExpectedSnake
              /\ functions[i].v.name = functions[i].k
              /\ functions[i].v.body.kind = "construct"
        /\ \A m \in PublicNames :
              \E i \in 1..Len(functions) :
                 /\ functions[i].k = m \o "_" \o ExpectedSnake
                 /\ functions[i].v.name = functions[i].k
                 /\ functions[i].v.body.kind = "method"
                 /\ functions[i].v.body.method = m
        /\ \A i \in 1..Len(functions) :
              functions[i].v.body.kind = "method" =>
                 functions[i].v.body.method \in PublicNames

\* the instances of the class under test
OwnHandles == {h \in 1..Len(objects) : mirror[h].live /\ mirror[h].cls = subject.name}

\* C18 (as claimed): a construction or a method call made through the generated
\* functions returns what the same construction or call made on the class
\* directly returns (or raises as it raises), and leaves every instance in the
\* state the direct calls leave it in.
C18_SameAsDirect ==
    (last_call.op \in {"initialize", "method"} /\ ~last_call.foreign) =>
        /\ last_call.via = last_call.direct
        /\ \A h \in OwnHandles : objects[h] = mirror[h]

\* C19: a call of a generated constructor function that returns makes one new
\* instance, distinct from all earlier ones, and leaves those as they were; a
\* call of a generated method function makes no instance and leaves every
\* instance but the one it was handed as it was.
C19_NoSharedInstance ==
    [][/\ (last_call'.kind = "construct" /\ last_call'.via.raised = ""
           /\ objects' # objects) =>
             /\ Len(objects') = Len(objects) + 1
             /\ last_call'.via.value = Ref(Len(objects'))
             /\ objects'[Len(objects')].live
             /\ \A h \in 1..Len(objects) : objects'[h] = objects[h]
       /\ (last_call'.kind = "method" /\ last_call'.op = "method"
           /\ ncalls' = ncalls + 1) =>
             /\ Len(objects') = Len(objects)
             /\ \A h \in 1..Len(objects) :
                   h # last_call'.handle => objects'[h] = objects[h]
      ]_vars

\* C19 witness: two instances were made by the generated constructor function
\* with the same arguments, and a method call on the first changed it alone
C19_Witness ==
    /\ Len(objects) = 2
    /\ \A h \in 1..2 : objects[h].live /\ objects[h].cls = subject.name
    /\ last_call.kind = "method" /\ last_call.handle = 1
    /\ last_call.via = [raised |-> "", value |-> IntVal(15)]
    /\ objects[1].x = 15 /\ objects[2].x = 10

\* C20 (as claimed): a generated method function handed something that is not an
\* instance of its class raises, and runs no method of the object it was handed.
C20_ForeignHandleFails ==
    (last_call.op = "method" /\ last_call.foreign) => last_call.via.raised # ""

\* the public methods of the class under test
PublicMethods == public_methods(subject.members)

\* the generated function standing for the public method at position i
MethodFunction(i) ==
    DictGet(functions, Join(PublicMethods[i].attr) \o "_" \o snake_case(subject.chars))

\* name and default of each parameter
Signature(params) ==
    [i \in 1..Len(params) |-> [name |-> params[i].name, default |-> params[i].default]]

\* C21 (as claimed): the parameters of the function generated for a public method
\* m are the instance handle, without default, followed by the parameters of m
\* after its receiver, in order and with their defaults; its schema lists the
\* handle first among the required parameters, then the parameters of m that
\* have no default.
C21_HandleThenMethodParameters ==
    functions # <<>> =>
        \A i \in 1..Len(PublicMethods) :
            LET m == PublicMethods[i].func
                f == MethodFunction(i)
                schema_of_f == function_to_schema(f)
            IN  /\ f.params # <<>>
                /\ f.params[1].default = NoDefault
                /\ Signature(Tail(f.params)) = Signature(Tail(m.params))
                /\ ~IsError(schema_of_f)
                /\ schema_of_f.function.parameters.required =
                      <<f.params[1].name>> \o required(Tail(m.params))

-----------------------------------------------------------------------------
(* Properties of BrowserManager                                            *)

\* C23: start() called while a browser context exists leaves browser_context and
\* playwright the objects they were and launches no Playwright instance and no
\* browser context.
C23_StartKeepsRunningBrowser ==
    [][(last_op'.op = "start" /\ browser_context # None) =>
          /\ browser_context' = browser_context
          /\ playwright' = playwright
          /\ instances' = instances]_vars

\* C23 witness: start() was called on a started manager and returned, the
\* context being still there and running
C23_Witness ==
    /\ last_op.op = "start"
    /\ last_op.started
    /\ ~last_op.raised
    /\ browser_context # None
    /\ instances[browser_context].running

\* C24 (as claimed): a call of start() that returns normally, whatever the state
\* of the manager, leaves browser_context set and returns a BrowserPage.
C24_StartReturnsPage ==
    (last_op.op = "start" /\ ~last_op.raised) =>
        /\ browser_context # None
        /\ last_op.returned = "BrowserPage"

\* C25 (as claimed): after a call of stop(), whatever the state of the manager,
\* browser_context and playwright are both None; on a manager that holds neither
\* the call raises nothing and closes nothing.
C25_StopClearsBoth ==
    last_op.op = "stop" =>
        /\ browser_context = None
        /\ playwright = None
        /\ (~last_op.started /\ ~last_op.had_playwright) =>
              (~last_op.raised /\ last_op.closed = 0)

\* C30 (as claimed): between operations playwright is None exactly when
\* browser_context is None, also after calls of start() and stop() that raised.
C30_BothOrNeither ==
    (playwright = None) <=> (browser_context = None)

-----------------------------------------------------------------------------
(* Properties of find_product_at_HEB                                       *)

\* no call made on the page or on one of its cards raises
NoError ==
    /\ product_query.str
    /\ browser_page.fails = "none"
    /\ \A k \in 1..Len(browser_page.cards) :
          /\ browser_page.cards[k].stock # "raise"
          /\ browser_page.cards[k].stock = "in" => browser_page.cards[k].title # "raise"

\* the cards not marked out of stock, in the order of the page
InStock == SelectSeq(browser_page.cards, LAMBDA card : card.stock # "out")

\* C26: when nothing raises, find_product_at_HEB returns the titles of the cards
\* that are not marked out of stock, one per card and in the order of the page,
\* hence the empty list when there is no such card.
C26_TitlesOfCardsInStock ==
    (found.returned /\ NoError) =>
        /\ ~found.raised
        /\ found.value = [k \in 1..Len(InStock) |-> InStock[k].title]

\* C26 witness: of the three cards of the page the second is out of stock, and
\* the titles of the first and the third were returned
C26_Witness ==
    /\ found.returned
    /\ NoError
    /\ Len(browser_page.cards) = 3
    /\ browser_page.cards[2].stock = "out"
    /\ found.value = <<"Milk", "Eggs">>

====
